---- MODULE Spec2Model ----
(***************************************************************************)
(* A model of src/app.py (the Nishinomiya garbage-collection navigator):   *)
(* fetch_calendar_data, fetch_detailed_guide, map_guide_to_calendar and    *)
(* the part of main() that reads the cached calendar table.                *)
(*                                                                         *)
(* Text is a sequence of characters.  A character is written as a short    *)
(* ASCII name: "mo" ya su go mi = もやすごみ, "moe" = 燃, "sa" na i = さない,*)
(* "shi" gen = 資源, "so" no ta = その他, "pu" ra = プラ, "pe" tt to bo to  *)
(* ru = ペットボトル, "ki" ken = 危険, "hi" = 日, "o" shi2 ra se = お知らせ,*)
(* "nl" = a line break, " " = a blank, "0".."9" = the decimal digits.      *)
(***************************************************************************)
EXTENDS Integers, Sequences, FiniteSets, TLC

VARIABLES
    title,      \* the argument of the last map_guide_to_calendar call
    mapped,     \* its return value (<<"pending">> before the call returns)
    now,        \* the wall clock: [date |-> <<y, m, d>>, slot |-> half hour of the day]
    ticks,      \* half hours elapsed since the process started
    calSite,    \* the calendar site: the response to each url (year, month)
    df,         \* the value fetch_calendar_data returned last (the cached table)
    queried,    \* the (year, month) of every request of that call, in order
    fetchNow,   \* the date of `now` read at the start of that call (line 32)
    calStamp,   \* when that value entered the cache (-1: no entry)
    guideSite,  \* the guide site: the index response and the linked pages
    guide_data, \* the value fetch_detailed_guide returned last (the cached list)
    fetched,    \* the (title, url) of every linked-page request of that call
    guideStamp, \* when that value entered the cache (-1: no entry)
    shown       \* what main() rendered last

mapVars   == <<title, mapped>>
clockVars == <<now, ticks>>
calVars   == <<calSite, df, queried, fetchNow, calStamp>>
guideVars == <<guideSite, guide_data, fetched, guideStamp>>
vars      == <<title, mapped, now, ticks, calSite, df, queried, fetchNow,
               calStamp, guideSite, guide_data, fetched, guideStamp, shown>>

-----------------------------------------------------------------------------
(* Text helpers: Python's `in` on str, str.strip, int()                    *)

\* key in text
Contains(key, text) ==
    \E i \in 0..(Len(text) - Len(key)) : SubSeq(text, i + 1, i + Len(key)) = key

IsSpace(c) == c \in {" ", "nl"}

RECURSIVE LStrip(_)
LStrip(s) == IF s # <<>> /\ IsSpace(Head(s)) THEN LStrip(Tail(s)) ELSE s

RECURSIVE RStrip(_)
RStrip(s) ==
    IF s # <<>> /\ IsSpace(s[Len(s)]) THEN RStrip(SubSeq(s, 1, Len(s) - 1)) ELSE s

\* str.strip()
Strip(s) == RStrip(LStrip(s))

Digits == {"0", "1", "2", "3", "4", "5", "6", "7", "8", "9"}

DigitVal(c) ==
    CASE c = "0" -> 0 [] c = "1" -> 1 [] c = "2" -> 2 [] c = "3" -> 3
      [] c = "4" -> 4 [] c = "5" -> 5 [] c = "6" -> 6 [] c = "7" -> 7
      [] c = "8" -> 8 [] c = "9" -> 9

\* int(s) of a non-empty string of digits
RECURSIVE IntOf(_)
IntOf(s) ==
    IF s = <<>> THEN 0
    ELSE 10 * IntOf(SubSeq(s, 1, Len(s) - 1)) + DigitVal(s[Len(s)])

-----------------------------------------------------------------------------
(* datetime.date                                                           *)

IsLeap(y) == (y % 4 = 0 /\ y % 100 # 0) \/ y % 400 = 0

DaysInMonth(y, m) ==
    IF m = 2 THEN (IF IsLeap(y) THEN 29 ELSE 28)
    ELSE IF m \in {4, 6, 9, 11} THEN 30 ELSE 31

\* datetime.date(y, m, d) does not raise ValueError
ValidDate(y, m, d) ==
    /\ y \in 1..9999
    /\ m \in 1..12
    /\ d >= 1
    /\ d <= DaysInMonth(y, m)

\* a <= b on dates <<y, m, d>>
DateLE(a, b) ==
    \/ a[1] < b[1]
    \/ a[1] = b[1] /\ a[2] < b[2]
    \/ a[1] = b[1] /\ a[2] = b[2] /\ a[3] <= b[3]

RECURSIVE DaysBeforeMonth(_, _)
DaysBeforeMonth(y, m) ==
    IF m = 1 THEN 0 ELSE DaysBeforeMonth(y, m - 1) + DaysInMonth(y, m - 1)

\* date.toordinal()
ToOrdinal(d) ==
    LET y == d[1] - 1
    IN  y * 365 + (y \div 4) - (y \div 100) + (y \div 400)
        + DaysBeforeMonth(d[1], d[2]) + d[3]

\* date.weekday(): Monday is 0
Weekday(d) == (ToOrdinal(d) + 6) % 7

weekdays == <<"getsu", "ka", "sui", "moku", "kin", "do", "nichi">>

get_weekday_str(year, month, day) ==
    IF ValidDate(year, month, day)
    THEN weekdays[Weekday(<<year, month, day>>) + 1]
    ELSE ""

get_url_by_date(year, month) == <<year, month>>

-----------------------------------------------------------------------------
(* map_guide_to_calendar                                                   *)

MOYASUGOMI   == <<"mo", "ya", "su", "go", "mi">>
MOERUGOMI    == <<"moe", "ya", "su", "go", "mi">>
MOYASANAI    == <<"moe", "ya", "sa", "na", "i", "go", "mi">>
SHIGEN       == <<"shi", "gen">>
SHIGEN_A     == <<"shi", "gen", "A">>
SHIGEN_B     == <<"shi", "gen", "B">>
PURA         == <<"pu", "ra">>
SONOTAPURA   == <<"so", "no", "ta", "pu", "ra">>
PETBOTTLE    == <<"pe", "tt", "to", "bo", "to", "ru">>
KIKEN        == <<"ki", "ken">>
NOHI         == <<"no", "hi">>
OSHIRASE     == <<"o", "shi2", "ra", "se">>

\* the dict of lines 132-136, in insertion order
mapping ==
    << <<MOYASUGOMI, MOERUGOMI>>, <<MOYASANAI, MOYASANAI>>,
       <<SHIGEN_A, SHIGEN_A>>, <<SHIGEN_B, SHIGEN_B>>,
       <<SONOTAPURA, SONOTAPURA>>, <<PETBOTTLE, PETBOTTLE>> >>

\* the loop of lines 137-139 from item i on
RECURSIVE MapFrom(_, _)
MapFrom(i, guide_title) ==
    IF i > Len(mapping) THEN guide_title
    ELSE IF Contains(mapping[i][1], guide_title) THEN mapping[i][2]
    ELSE MapFrom(i + 1, guide_title)

\* a mapper that compares with == instead of in
RECURSIVE MapExactFrom(_, _)
MapExactFrom(i, guide_title) ==
    IF i > Len(mapping) THEN guide_title
    ELSE IF mapping[i][1] = guide_title THEN mapping[i][2]
    ELSE MapExactFrom(i + 1, guide_title)

map_guide_exact(guide_title) == MapExactFrom(1, guide_title)

\* a mapper that keeps the last key found instead of returning at the first
RECURSIVE MapLastFrom(_, _)
MapLastFrom(i, guide_title) ==
    IF i < 1 THEN guide_title
    ELSE IF Contains(mapping[i][1], guide_title) THEN mapping[i][2]
    ELSE MapLastFrom(i - 1, guide_title)

map_guide_last(guide_title) == MapLastFrom(Len(mapping), guide_title)

map_guide_to_calendar(guide_title) == MapFrom(1, guide_title)

-----------------------------------------------------------------------------
(* fetch_calendar_data                                                     *)
(*                                                                         *)
(* A response is [raises, status, table, cells]: raises is requests.get    *)
(* raising (timeout, connection refused); table is soup.find('table')      *)
(* finding one; cells are the td elements of that table in document order, *)
(* each the sequence of its text nodes.                                    *)

\* col.get_text(strip=True): every text node stripped, the empty ones dropped,
\* the rest joined with no separator
RECURSIVE get_text_strip(_)
get_text_strip(nodes) ==
    IF nodes = <<>> THEN <<>>
    ELSE Strip(Head(nodes)) \o get_text_strip(Tail(nodes))

\* the length of the longest prefix of text made of digits: group 1 of (\d+)
RECURSIVE DigitPrefix(_)
DigitPrefix(text) ==
    IF text # <<>> /\ Head(text) \in Digits THEN 1 + DigitPrefix(Tail(text)) ELSE 0

\* the longest prefix of text without a line break: what (.*) matches, since
\* re.match is called without re.DOTALL
RECURSIVE DotStar(_)
DotStar(text) ==
    IF text # <<>> /\ Head(text) # "nl" THEN <<Head(text)>> \o DotStar(Tail(text))
    ELSE <<>>

\* re.match(r"(\d+)(.*)", text): <<matched, group 1, group 2>>
ReMatch(text) ==
    LET n == DigitPrefix(text)
    IN  IF n = 0 THEN [matched |-> FALSE, g1 |-> <<>>, g2 |-> <<>>]
        ELSE [matched |-> TRUE,
              g1 |-> SubSeq(text, 1, n),
              g2 |-> DotStar(SubSeq(text, n + 1, Len(text)))]

\* lines 65-70
Entry(year, month, day_num, gomi_type) ==
    [date_obj |-> <<year, month, day_num>>,
     hizuke   |-> <<month, day_num>>,
     youbi    |-> get_weekday_str(year, month, day_num),
     gomi     |-> gomi_type]

\* lines 64-70: only today and later is appended
AppendIfFuture(all_data, year, month, day_num, gomi_type, today) ==
    IF DateLE(today, <<year, month, day_num>>)
    THEN Append(all_data, Entry(year, month, day_num, gomi_type))
    ELSE all_data

\* lines 55-70 from cell i on.  datetime.date of line 62 raises ValueError on an
\* invalid day; the except of line 71 encloses the whole month, so the loop
\* over the month's cells ends there with what was appended before.
RECURSIVE CellsFrom(_, _, _, _, _, _)
CellsFrom(i, cells, year, month, today, all_data) ==
    IF i > Len(cells) THEN all_data
    ELSE LET text == get_text_strip(cells[i])
             match == ReMatch(text)
             day_num == IntOf(match.g1)
         IN  IF text = <<>> \/ ~match.matched
             THEN CellsFrom(i + 1, cells, year, month, today, all_data)
             ELSE IF ~ValidDate(year, month, day_num)
             THEN all_data
             ELSE CellsFrom(i + 1, cells, year, month, today,
                            AppendIfFuture(all_data, year, month, day_num,
                                           match.g2, today))

\* lines 44-72 for one (year, month)
FetchMonth(resp, year, month, today, all_data) ==
    IF resp.raises THEN all_data
    ELSE IF resp.status # 200 THEN all_data
    ELSE IF ~resp.table THEN all_data
    ELSE CellsFrom(1, resp.cells, year, month, today, all_data)

\* the next month without the December case
years_months_norollover(d) == << <<d[1], d[2]>>, <<d[1], d[2] + 1>> >>

\* lines 33-39
years_months(d) ==
    IF d[2] = 12 THEN << <<d[1], 12>>, <<d[1] + 1, 1>> >>
    ELSE << <<d[1], d[2]>>, <<d[1], d[2] + 1>> >>

\* s with e inserted after the last element whose date is <= e's
RECURSIVE InsertByDate(_, _)
InsertByDate(s, e) ==
    IF s = <<>> THEN <<e>>
    ELSE IF DateLE(s[Len(s)].date_obj, e.date_obj) THEN Append(s, e)
    ELSE Append(InsertByDate(SubSeq(s, 1, Len(s) - 1), e), s[Len(s)])

\* a table left in scrape order
sort_values_none(s) == s

\* df.sort_values('date_obj'); rows of one date keep their order here (no
\* property below reads the order of rows of equal date)
RECURSIVE sort_values(_)
sort_values(s) ==
    IF s = <<>> THEN <<>>
    ELSE InsertByDate(sort_values(SubSeq(s, 1, Len(s) - 1)), s[Len(s)])

\* lines 41-72: the loop over the two months
all_data_of(site, today) ==
    LET ym == years_months(today)
        first == FetchMonth(site[get_url_by_date(ym[1][1], ym[1][2])],
                            ym[1][1], ym[1][2], today, <<>>)
    IN  FetchMonth(site[get_url_by_date(ym[2][1], ym[2][2])],
                   ym[2][1], ym[2][2], today, first)

\* lines 30-78: the returned table
fetch_calendar_data(site, clock) == sort_values(all_data_of(site, clock.date))

\* the url of every requests.get of the call (lines 43-46), in order
calendar_requests(clock) ==
    LET ym == years_months(clock.date)
    IN  <<get_url_by_date(ym[1][1], ym[1][2]), get_url_by_date(ym[2][1], ym[2][2])>>

-----------------------------------------------------------------------------
(* fetch_detailed_guide                                                    *)
(*                                                                         *)
(* The guide site is [index, pages].  index is [raises, status, main,      *)
(* anchors]: main is the div with id main or contents being found, anchors *)
(* are the a elements inside it, each [href, text] with text its text      *)
(* nodes.  pages maps a url to [raises, status, main, content], content    *)
(* being the nodes [tag, text] of the page's content region.               *)
(* A url is a sequence of path segments after the scheme; an href is       *)
(* <<>> (no href attribute, or an empty one), <<"rel", file>> (relative to *)
(* the directory of the index page) or <<"full">> \o url.                  *)

base_url ==
    <<"www.nishi.or.jp", "kurashi", "gomi", "gominoshushu", "gominobunnbetu.html">>

\* urljoin(base, href) for the hrefs above
urljoin(base, href) ==
    IF href[1] = "rel" THEN SubSeq(base, 1, Len(base) - 1) \o Tail(href)
    ELSE Tail(href)

\* line 101
keywords == <<MOYASUGOMI, MOYASANAI, SHIGEN, PETBOTTLE, PURA, KIKEN>>

\* line 102: any(k in text for k in keywords)
AnyKeyword(text) == \E i \in 1..Len(keywords) : Contains(keywords[i], text)

\* lines 96-104 from anchor i on: the list target_urls
RECURSIVE TargetsFrom(_, _)
TargetsFrom(i, links) ==
    IF i > Len(links) THEN <<>>
    ELSE LET href == links[i].href
             text == get_text_strip(links[i].text)
         IN  IF href # <<>> /\ text # <<>> /\ AnyKeyword(text)
             THEN <<<<text, urljoin(base_url, href)>>>> \o TargetsFrom(i + 1, links)
             ELSE TargetsFrom(i + 1, links)

Range(s) == {s[i] : i \in 1..Len(s)}

\* line 106: set(target_urls)
target_set(links) == Range(TargetsFrom(1, links))

\* list(set(...)): the set in some order, each member once.  The order of a set
\* of str tuples changes from run to run (hash randomisation).
Orders(S) ==
    {o \in [1..Cardinality(S) -> S] : \A x \in S : \E i \in DOMAIN o : o[i] = x}

\* a crawl without line 106: target_urls is iterated as it was built
target_orders_nodedup(links) == {TargetsFrom(1, links)}

\* line 106: target_urls = list(set(target_urls))
target_orders(links) == Orders(target_set(links))

\* sub_content.get_text("\n", strip=True) after script and style are removed
\* (lines 115-117): the stripped non-empty texts joined by a line break
RECURSIVE details_of(_)
details_of(content) ==
    IF content = <<>> THEN <<>>
    ELSE LET n == Head(content)
             t == IF n.tag \in {"script", "style"} THEN <<>> ELSE Strip(n.text)
             rest == details_of(Tail(content))
         IN  IF t = <<>> THEN rest
             ELSE IF rest = <<>> THEN t
             ELSE t \o <<"nl">> \o rest

\* lines 119-124
GuideRecord(ttl, link_url, sub_res) ==
    [category_name |-> ttl,
     calendar_name |-> map_guide_to_calendar(ttl),
     details       |-> details_of(sub_res.content),
     url           |-> link_url]

\* lines 109-126 for one (title, link_url): the status code is not read
CrawlOne(guide, ttl, link_url, sub_res) ==
    IF sub_res.raises THEN guide
    ELSE IF ~sub_res.main THEN guide
    ELSE Append(guide, GuideRecord(ttl, link_url, sub_res))

\* a crawl whose failing page ends it: the exception reaches line 128
RECURSIVE CrawlFromAbort(_, _, _, _)
CrawlFromAbort(i, targets, pages, guide) ==
    IF i > Len(targets) THEN guide
    ELSE IF pages[targets[i][2]].raises THEN <<>>
    ELSE CrawlFromAbort(i + 1, targets, pages,
                        CrawlOne(guide, targets[i][1], targets[i][2],
                                 pages[targets[i][2]]))

\* lines 108-126 from target i on
RECURSIVE CrawlFrom(_, _, _, _)
CrawlFrom(i, targets, pages, guide) ==
    IF i > Len(targets) THEN guide
    ELSE CrawlFrom(i + 1, targets, pages,
                   CrawlOne(guide, targets[i][1], targets[i][2],
                            pages[targets[i][2]]))

\* lines 88-93: the index page yields a content area (the status code is not read)
IndexUsable(index) ==
    /\ ~index.raises
    /\ index.main

\* lines 84-129, with target_urls iterated in the order `order`
fetch_detailed_guide(site, order) ==
    IF ~IndexUsable(site.index) THEN <<>>
    ELSE CrawlFrom(1, order, site.pages, <<>>)

\* the (title, url) of every requests.get of line 110, in order
guide_requests(site, order) ==
    IF ~IndexUsable(site.index) THEN <<>> ELSE order

\* the orders the loop of line 108 may take
guide_orders(site) ==
    IF ~IndexUsable(site.index) THEN {<<>>}
    ELSE target_orders(site.index.anchors)

-----------------------------------------------------------------------------
(* The cache of st.cache_data and the clock                                *)

SlotSeconds == 30 * 60
SlotsPerDay == 24 * 2
CalendarTtl == 3600
GuideTtl == 86400

NextDay(d) ==
    IF d[3] < DaysInMonth(d[1], d[2]) THEN <<d[1], d[2], d[3] + 1>>
    ELSE IF d[2] < 12 THEN <<d[1], d[2] + 1, 1>>
    ELSE <<d[1] + 1, 1, 1>>

\* an entry of age < ttl is served from the cache
Fresh(stamp, ttl) ==
    /\ stamp >= 0
    /\ (ticks - stamp) * SlotSeconds < ttl

\* fetch_calendar_data() behind @st.cache_data(ttl=3600)
CalendarCall ==
    IF Fresh(calStamp, CalendarTtl)
    THEN UNCHANGED <<df, queried, fetchNow, calStamp>>
    ELSE /\ df' = fetch_calendar_data(calSite, now)
         /\ queried' = calendar_requests(now)
         /\ fetchNow' = now.date
         /\ calStamp' = ticks

\* fetch_detailed_guide() behind @st.cache_data(ttl=86400)
GuideCall ==
    IF Fresh(guideStamp, GuideTtl)
    THEN UNCHANGED <<guide_data, fetched, guideStamp>>
    ELSE \E order \in guide_orders(guideSite) :
            /\ guide_data' = fetch_detailed_guide(guideSite, order)
            /\ fetched' = guide_requests(guideSite, order)
            /\ guideStamp' = ticks

-----------------------------------------------------------------------------
(* Bounds and the inputs drawn within them                                 *)

MaxFrags == 2
MaxCells == 2
MaxAnchors == 3
MaxTicks == 4

SeqsUpTo(S, n) == UNION {[1..k -> S] : k \in 0..n}

RECURSIVE Concat(_)
Concat(ss) == IF ss = <<>> THEN <<>> ELSE Head(ss) \o Concat(Tail(ss))

Pending == <<"pending">>

\* titles: up to MaxFrags fragments, the keys of the mapping among them
Fragments ==
    {MOYASUGOMI, MOYASANAI, SHIGEN_A, SHIGEN_B, SONOTAPURA, PETBOTTLE,
     MOERUGOMI, SHIGEN, PURA, NOHI, KIKEN}

Titles == {Concat(fs) : fs \in SeqsUpTo(Fragments, MaxFrags)}

\* cells of a calendar table
CellBurn5   == << <<"5">>, MOERUGOMI >>
CellShigen28 == << <<"2", "8">> \o SHIGEN_A >>
CellPet31   == << <<"3", "1">>, PETBOTTLE >>
CellZero    == << <<"0">> \o PURA >>
CellNoDigit == << MOERUGOMI >>
CellBlank   == << <<" ", "nl">> >>
CellBreak   == << <<"1", "5", "nl">> \o PURA >>
CellDay12   == << <<" ", "1", "2", " ">> >>

CellsA ==
    {CellBurn5, CellShigen28, CellPet31, CellZero, CellNoDigit, CellBlank,
     CellBreak, CellDay12}
CellsB == {CellBurn5, CellPet31, CellNoDigit, CellBreak}

OkPage(cells) == [raises |-> FALSE, status |-> 200, table |-> TRUE, cells |-> cells]
TimeoutPage   == [raises |-> TRUE, status |-> 0, table |-> FALSE, cells |-> <<>>]
NoTablePage   == [raises |-> FALSE, status |-> 200, table |-> FALSE, cells |-> <<>>]
ErrorPage(st, cells) ==
    [raises |-> FALSE, status |-> st, table |-> TRUE, cells |-> cells]

Pages(C) ==
    {OkPage(cs) : cs \in SeqsUpTo(C, MaxCells)}
    \cup {TimeoutPage, NoTablePage, ErrorPage(404, <<CellShigen28>>),
          ErrorPage(503, <<CellBurn5>>)}

Evening == SlotsPerDay - 2

CalClocks ==
    {[date |-> d, slot |-> Evening] :
        d \in {<<2024, 4, 10>>, <<2024, 12, 20>>, <<2023, 2, 27>>}}

\* the sites answering the two requests of a call made at `clock`
CalSites(clock) ==
    LET ym == calendar_requests(clock)
    IN  {(ym[1] :> a) @@ (ym[2] :> b) : a \in Pages(CellsA), b \in Pages(CellsB)}

NoCalSite == <<>>
NoGuideSite ==
    [index |-> [raises |-> TRUE, status |-> 0, main |-> FALSE, anchors |-> <<>>],
     pages |-> <<>>]
NoShown ==
    [rendered |-> FALSE, today |-> <<1, 1, 1>>, headline |-> <<>>, week |-> <<>>,
     later |-> {}, search_today |-> <<1, 1, 1>>, pickups |-> <<>>]

IdleMap   == title = <<>> /\ mapped = Pending
IdleCal   == calSite = NoCalSite /\ df = <<>> /\ queried = <<>>
             /\ fetchNow = <<1, 1, 1>> /\ calStamp = -1
IdleGuide == guideSite = NoGuideSite /\ guide_data = <<>> /\ fetched = <<>>
             /\ guideStamp = -1
IdleClock == now = [date |-> <<2024, 4, 10>>, slot |-> Evening] /\ ticks = 0

-----------------------------------------------------------------------------
(* SpecMap: one call of map_guide_to_calendar on a title                   *)

InitMap ==
    /\ title \in Titles
    /\ mapped = Pending
    /\ IdleClock /\ IdleCal /\ IdleGuide
    /\ shown = NoShown

MapTitle ==
    /\ mapped = Pending
    /\ mapped' = map_guide_to_calendar(title)
    /\ UNCHANGED <<title, clockVars, calVars, guideVars, shown>>

NextMap == MapTitle

SpecMap == InitMap /\ [][NextMap]_vars

-----------------------------------------------------------------------------
(* SpecCal: one call of fetch_calendar_data against a calendar site        *)

InitCal ==
    /\ now \in CalClocks
    /\ ticks = 0
    /\ calSite \in CalSites(now)
    /\ df = <<>> /\ queried = <<>> /\ fetchNow = <<1, 1, 1>> /\ calStamp = -1
    /\ IdleMap /\ IdleGuide
    /\ shown = NoShown

FetchCalendar ==
    /\ calStamp = -1
    /\ CalendarCall
    /\ UNCHANGED <<mapVars, clockVars, calSite, guideVars, shown>>

NextCal == FetchCalendar

SpecCal == InitCal /\ [][NextCal]_vars

-----------------------------------------------------------------------------
(* SpecGuide: one call of fetch_detailed_guide against a guide site        *)

GuideDir == SubSeq(base_url, 1, Len(base_url) - 1)
UrlA == GuideDir \o <<"a.html">>
UrlB == GuideDir \o <<"b.html">>
UrlC == GuideDir \o <<"c.html">>

AnchorMoyasuRel  == [href |-> <<"rel", "a.html">>, text |-> <<MOYASUGOMI>>]
AnchorMoyasuFull == [href |-> <<"full">> \o UrlA, text |-> <<<<" ">>, MOYASUGOMI, <<"nl">>>>]
AnchorShigenB    == [href |-> <<"rel", "b.html">>, text |-> <<SHIGEN_A>>]
AnchorShigenA    == [href |-> <<"rel", "a.html">>, text |-> <<SHIGEN_A>>]
AnchorNoHref     == [href |-> <<>>, text |-> <<PURA>>]
AnchorNews       == [href |-> <<"rel", "c.html">>, text |-> <<OSHIRASE>>]
AnchorNoText     == [href |-> <<"rel", "b.html">>, text |-> <<<<" ">>>>]

Anchors ==
    {AnchorMoyasuRel, AnchorMoyasuFull, AnchorShigenB, AnchorShigenA,
     AnchorNoHref, AnchorNews, AnchorNoText}

Body == <<[tag |-> "p", text |-> <<"nl", "da", "shi", "ka", "ta", " ">>],
          [tag |-> "script", text |-> <<"js">>],
          [tag |-> "p", text |-> <<"de", "n", "chi">>]>>

SubOk       == [raises |-> FALSE, status |-> 200, main |-> TRUE, content |-> Body]
SubTimeout  == [raises |-> TRUE, status |-> 0, main |-> FALSE, content |-> <<>>]
SubNoMain   == [raises |-> FALSE, status |-> 200, main |-> FALSE, content |-> <<>>]
SubNotFound == [raises |-> FALSE, status |-> 404, main |-> TRUE,
                content |-> <<[tag |-> "p", text |-> <<"4", "0", "4">>]>>]

SubResponses == {SubOk, SubTimeout, SubNoMain, SubNotFound}

IndexPage(st, links) ==
    [raises |-> FALSE, status |-> st, main |-> TRUE, anchors |-> links]
IndexTimeout ==
    [raises |-> TRUE, status |-> 0, main |-> FALSE, anchors |-> <<>>]
IndexNoMain ==
    [raises |-> FALSE, status |-> 200, main |-> FALSE,
     anchors |-> <<AnchorMoyasuRel>>]

Indexes ==
    {IndexPage(st, links) : st \in {200, 404}, links \in SeqsUpTo(Anchors, MaxAnchors)}
    \cup {IndexTimeout, IndexNoMain}

GuidePages ==
    {(UrlA :> a) @@ (UrlB :> b) @@ (UrlC :> SubOk) :
        a \in SubResponses, b \in SubResponses}

GuideSites == [index : Indexes, pages : GuidePages]

InitGuide ==
    /\ guideSite \in GuideSites
    /\ guide_data = <<>> /\ fetched = <<>> /\ guideStamp = -1
    /\ IdleMap /\ IdleClock /\ IdleCal
    /\ shown = NoShown

FetchGuide ==
    /\ guideStamp = -1
    /\ GuideCall
    /\ UNCHANGED <<mapVars, clockVars, calVars, guideSite, shown>>

NextGuide == FetchGuide

SpecGuide == InitGuide /\ [][NextGuide]_vars

-----------------------------------------------------------------------------
(* main(): what it reads of the cached table                               *)

WeekRows == 7

\* a main() that trusts the cached table to be filtered already
FutureRowsAll(cal, today) == cal

\* line 166: df_calendar[df_calendar['date_obj'] >= today_date]
FutureRows(cal, today) ==
    LET keep(e) == DateLE(today, e.date_obj) IN SelectSeq(cal, keep)

\* lines 170-178: the row shown as today's pickup, or else as the next one
Headline(future_df, today) ==
    LET is_today(e) == e.date_obj = today
        today_df == SelectSeq(future_df, is_today)
    IN  IF today_df # <<>> THEN <<today_df[1]>> ELSE <<future_df[1]>>

\* line 183: future_df.head(7)
OneWeek(future_df) ==
    SubSeq(future_df, 1, IF Len(future_df) < WeekRows THEN Len(future_df) ELSE WeekRows)

\* line 184: future_df.iloc[7:]
Rest(future_df) == SubSeq(future_df, WeekRows + 1, Len(future_df))

\* lines 193-207: for every type of rest_df that one_week_df lacks, its first row
LaterRows(one_week_df, rest_df) ==
    LET types_in_week == {e.gomi : e \in Range(one_week_df)}
        types_in_rest == {e.gomi : e \in Range(rest_df)}
        first_of(g) == LET is_g(e) == e.gomi = g IN SelectSeq(rest_df, is_g)[1]
    IN  {first_of(g) : g \in types_in_rest \ types_in_week}

\* lines 241-244: the rows whose type contains cal_name, from today on.
\* str.contains reads cal_name as a regular expression; the labels drawn here
\* hold no metacharacter, so it is substring containment.
SearchMatches(cal, cal_name, today) ==
    LET hit(e) == Contains(cal_name, e.gomi) /\ DateLE(today, e.date_obj)
    IN  SelectSeq(cal, hit)

\* lines 230-247 from item i on: the next pickup shown for every hit that has one
RECURSIVE PickupsFrom(_, _, _, _, _)
PickupsFrom(i, guide_list, cal, query, today) ==
    IF i > Len(guide_list) THEN <<>>
    ELSE LET item == guide_list[i]
             rest == PickupsFrom(i + 1, guide_list, cal, query, today)
             matches == SearchMatches(cal, item.calendar_name, today)
         IN  IF (Contains(query, item.details) \/ Contains(query, item.category_name))
                /\ cal # <<>> /\ matches # <<>>
             THEN <<matches[1]>> \o rest
             ELSE rest

\* lines 156-219: the calendar tab, rendered at `clock`
Tab1(cal, clock) ==
    LET today_date == clock.date
        future_df == IF cal # <<>> THEN FutureRows(cal, today_date) ELSE <<>>
    IN  IF future_df = <<>>
        THEN [headline |-> <<>>, week |-> <<>>, later |-> {}]
        ELSE [headline |-> Headline(future_df, today_date),
              week     |-> OneWeek(future_df),
              later    |-> LaterRows(OneWeek(future_df), Rest(future_df))]

\* lines 224-260: the search tab, rendered at `clock` for the typed query
Tab2(cal, guide_list, query, clock) ==
    IF query = <<>> THEN <<>>
    ELSE PickupsFrom(1, guide_list, cal, query, clock.date)

Render(cal, guide_list, query, clock) ==
    LET t1 == Tab1(cal, clock)
    IN  [rendered |-> TRUE, today |-> clock.date,
         headline |-> t1.headline, week |-> t1.week, later |-> t1.later,
         search_today |-> clock.date,
         pickups |-> Tab2(cal, guide_list, query, clock)]

-----------------------------------------------------------------------------
(* Spec: the running app.  The clock advances by half hours; every rerun   *)
(* of the script executes main().                                          *)

Cell(day, label) == << day \o label >>

AprilCells ==
    <<Cell(<<"1">>, PURA), Cell(<<"2", "9">>, MOERUGOMI), Cell(<<"3", "0">>, SHIGEN_A)>>
MayCells ==
    <<Cell(<<"1">>, PURA), Cell(<<"2">>, MOERUGOMI), Cell(<<"3">>, SHIGEN_B),
      Cell(<<"6">>, MOERUGOMI), Cell(<<"7">>, PURA), Cell(<<"9">>, MOERUGOMI),
      Cell(<<"1", "0">>, SHIGEN_B), Cell(<<"1", "3">>, MOERUGOMI),
      Cell(<<"2", "0">>, PETBOTTLE)>>
JuneCells == <<Cell(<<"3">>, MOERUGOMI)>>

AppCalSite(april, may) ==
    (<<2024, 4>> :> april) @@ (<<2024, 5>> :> may) @@ (<<2024, 6>> :> OkPage(JuneCells))

AppCalSites ==
    {AppCalSite(OkPage(AprilCells), OkPage(MayCells)),
     AppCalSite(ErrorPage(404, AprilCells), OkPage(MayCells)),
     AppCalSite(OkPage(AprilCells), TimeoutPage)}

AppGuidePages(a, b) == (UrlA :> a) @@ (UrlB :> b) @@ (UrlC :> SubOk)

AppGuideSites ==
    {[index |-> IndexPage(200, <<AnchorMoyasuRel, AnchorShigenB, AnchorMoyasuFull>>),
      pages |-> AppGuidePages(SubOk, SubOk)],
     [index |-> IndexPage(200, <<AnchorMoyasuRel, AnchorNews, AnchorShigenB>>),
      pages |-> AppGuidePages(SubNotFound, SubTimeout)],
     [index |-> IndexPage(404, <<AnchorMoyasuRel>>),
      pages |-> AppGuidePages(SubOk, SubOk)],
     [index |-> IndexTimeout, pages |-> AppGuidePages(SubOk, SubOk)]}

AppClocks ==
    {[date |-> d, slot |-> Evening] : d \in {<<2024, 4, 29>>, <<2024, 4, 30>>}}

\* what the user may have typed in the search box
Queries == {<<>>, MOYASUGOMI, <<"de", "n", "chi">>, <<"zz">>}

Init ==
    /\ now \in AppClocks
    /\ ticks = 0
    /\ calSite \in AppCalSites
    /\ df = <<>> /\ queried = <<>> /\ fetchNow = <<1, 1, 1>> /\ calStamp = -1
    /\ guideSite \in AppGuideSites
    /\ guide_data = <<>> /\ fetched = <<>> /\ guideStamp = -1
    /\ IdleMap
    /\ shown = NoShown

\* half an hour passes
Tick ==
    /\ ticks < MaxTicks
    /\ ticks' = ticks + 1
    /\ now' = IF now.slot + 1 < SlotsPerDay
              THEN [now EXCEPT !.slot = now.slot + 1]
              ELSE [date |-> NextDay(now.date), slot |-> 0]
    /\ UNCHANGED <<mapVars, calVars, guideVars, shown>>

\* lines 144-260: one run of the script
Main ==
    /\ CalendarCall
    /\ GuideCall
    /\ \E query \in Queries : shown' = Render(df', guide_data', query, now)
    /\ UNCHANGED <<mapVars, clockVars, calSite, guideSite>>

Next == Tick \/ Main

Spec == Init /\ [][Next]_vars

-----------------------------------------------------------------------------
(* Properties                                                              *)

\* the cells of a page that fetch_calendar_data reads
Readable(page) == ~page.raises /\ page.status = 200 /\ page.table

\* the number of leading digits of text, stated without recursion
LeadDigits(text) ==
    CHOOSE n \in 0..Len(text) :
        /\ \A k \in 1..n : text[k] \in Digits
        /\ n = Len(text) \/ text[n + 1] \notin Digits

\* the day a cell text starts with, and everything after it
DayOf(text) == IntOf(SubSeq(text, 1, LeadDigits(text)))
RestOf(text) == SubSeq(text, LeadDigits(text) + 1, Len(text))

\* cell i of the page of month ym is well formed: its text starts with a day
\* that is a valid date of that month
WellFormed(ym, text) ==
    /\ LeadDigits(text) >= 1
    /\ ValidDate(ym[1], ym[2], DayOf(text))

\* it starts with a day number that is no date of that month
InvalidDay(ym, text) ==
    /\ LeadDigits(text) >= 1
    /\ ~ValidDate(ym[1], ym[2], DayOf(text))

Texts(page) == [i \in 1..Len(page.cells) |-> get_text_strip(page.cells[i])]

HasEntry(table, date, label) ==
    \E e \in Range(table) : e.date_obj = date /\ e.gomi = label

HasDate(table, date) == \E e \in Range(table) : e.date_obj = date

SuccessStatus(st) == st \in 200..299

(* C1: an invalid day number is rejected for its cell only: every valid     *)
(* cell of today or later, before or after the invalid cell of the same     *)
(* month's table, has its entry in the returned table.                      *)
C1_InvalidCellRejectedAlone ==
    calStamp >= 0 =>
        \A ym \in DOMAIN calSite :
            Readable(calSite[ym]) =>
                LET texts == Texts(calSite[ym])
                IN  \A i, j \in DOMAIN texts :
                        /\ InvalidDay(ym, texts[j])
                        /\ WellFormed(ym, texts[i])
                        /\ DateLE(fetchNow, <<ym[1], ym[2], DayOf(texts[i])>>)
                        => HasDate(df, <<ym[1], ym[2], DayOf(texts[i])>>)

(* C2: the returned table is sorted non-decreasing by date and holds only   *)
(* entries of the reference date (today at the start of the call) or later. *)
C2_SortedAndFromToday ==
    calStamp >= 0 =>
        /\ \A i \in 1..(Len(df) - 1) : DateLE(df[i].date_obj, df[i + 1].date_obj)
        /\ \A i \in 1..Len(df) : DateLE(fetchNow, df[i].date_obj)

\* a call that dropped a past cell and had to reorder rows of both months
C2_Witness ==
    /\ calStamp >= 0
    /\ Len(df) >= 3
    /\ df # all_data_of(calSite, fetchNow)
    /\ \E i \in 1..Len(df) : df[i].date_obj[2] # fetchNow[2]
    /\ \E ym \in DOMAIN calSite :
          /\ Readable(calSite[ym])
          /\ \E t \in Range(Texts(calSite[ym])) :
                /\ WellFormed(ym, t)
                /\ ~DateLE(fetchNow, <<ym[1], ym[2], DayOf(t)>>)

(* C3: one call requests exactly two months: the month of the reference     *)
(* date and the next one, which for December is January of the next year.   *)
C3_TwoMonthsQueried ==
    calStamp >= 0 =>
        /\ Len(queried) = 2
        /\ queried[1] = <<fetchNow[1], fetchNow[2]>>
        /\ fetchNow[2] = 12 => queried[2] = <<fetchNow[1] + 1, 1>>
        /\ fetchNow[2] # 12 => queried[2] = <<fetchNow[1], fetchNow[2] + 1>>

\* a call made in December whose first request failed
C3_Witness ==
    /\ calStamp >= 0
    /\ fetchNow[2] = 12
    /\ calSite[queried[1]].raises
    /\ queried[2] = <<fetchNow[1] + 1, 1>>
    /\ df # <<>>


\* the (text, resolved url) of every qualifying anchor of the index page
Candidates == Range(TargetsFrom(1, guideSite.index.anchors))

Count(seq, x) == Cardinality({i \in 1..Len(seq) : seq[i] = x})

Crawled == guideStamp >= 0 /\ IndexUsable(guideSite.index)

(* C4: however many qualifying anchors share a (text, resolved url), that   *)
(* pair is fetched exactly once and yields at most one record; no two       *)
(* records of the returned list share (category_name, url).                 *)
C4_OneFetchPerPair ==
    Crawled =>
        /\ \A c \in Candidates : Count(fetched, c) = 1
        /\ \A i, j \in 1..Len(guide_data) :
              /\ guide_data[i].category_name = guide_data[j].category_name
              /\ guide_data[i].url = guide_data[j].url
              => i = j

\* an index page where two anchors, one relative and one absolute, give the
\* same pair, crawled to a record of it
C4_Witness ==
    /\ Crawled
    /\ \E i, j \in 1..Len(guideSite.index.anchors) :
          LET a == guideSite.index.anchors[i]
              b == guideSite.index.anchors[j]
          IN  /\ i # j
              /\ a.href # <<>> /\ b.href # <<>> /\ a.href # b.href
              /\ get_text_strip(a.text) = get_text_strip(b.text)
              /\ urljoin(base_url, a.href) = urljoin(base_url, b.href)
              /\ <<get_text_strip(a.text), urljoin(base_url, a.href)>> \in Candidates
              /\ \E r \in Range(guide_data) :
                    /\ r.category_name = get_text_strip(a.text)
                    /\ r.url = urljoin(base_url, a.href)

(* C5: a linked page whose fetch fails is skipped alone: every other        *)
(* candidate whose page is fetched and has a content region has its record  *)
(* in the returned list.                                                    *)
C5_PageFailureIsolated ==
    Crawled =>
        \A c \in Candidates :
            LET page == guideSite.pages[c[2]]
            IN  ~page.raises /\ page.main =>
                    \E r \in Range(guide_data) :
                        r.category_name = c[1] /\ r.url = c[2]

\* a crawl that met a failing page first and still recorded a later one
C5_Witness ==
    /\ Crawled
    /\ \E i, j \in 1..Len(fetched) :
          /\ i < j
          /\ guideSite.pages[fetched[i][2]].raises
          /\ \E r \in Range(guide_data) :
                r.category_name = fetched[j][1] /\ r.url = fetched[j][2]

Mapped == mapped # Pending

BurnableDay == MOERUGOMI \o NOHI
MoyasuDay   == MOYASUGOMI \o NOHI

(* C6 as stated: the title 燃やすごみの日 maps to the label 燃やすごみ.        *)
C6_Original ==
    Mapped /\ title = BurnableDay => mapped = MOERUGOMI

(* C6 as the code has it: the key of the burnable label is もやすごみ, so    *)
(* the title もやすごみの日 maps to 燃やすごみ by substring match, and the    *)
(* title 燃やすごみの日, which holds no key, is returned unchanged.           *)
C6_KanaKeyMapsToBurnable ==
    /\ Mapped /\ title = MoyasuDay => mapped = MOERUGOMI
    /\ Mapped /\ title = BurnableDay => mapped = BurnableDay

C6_Witness == Mapped /\ title = MoyasuDay /\ mapped = MOERUGOMI

(* C8: the result is the label of the first key, in the declared order of   *)
(* the mapping, that occurs in the title; the title itself if none occurs.  *)
C8_FirstKeyInDeclaredOrder ==
    Mapped =>
        LET found == {i \in 1..Len(mapping) : Contains(mapping[i][1], title)}
        IN  /\ found = {} => mapped = title
            /\ \A i \in found : (\A j \in found : i <= j) => mapped = mapping[i][2]

\* a title holding two keys, the one declared later standing first in it
C8_Witness ==
    /\ Mapped
    /\ title = SHIGEN_B \o SHIGEN_A
    /\ mapped = SHIGEN_A


(* C7: a response with a non-2xx status yields an empty result for its      *)
(* fetch, whatever its body: such a calendar month page contributes no      *)
(* entry, such an index page makes the guide list empty, and such a linked  *)
(* page contributes no record.                                              *)
C7_NonSuccessStatusYieldsEmpty ==
    /\ calStamp >= 0 =>
          \A i \in 1..Len(queried) :
              LET page == calSite[queried[i]]
              IN  ~page.raises /\ ~SuccessStatus(page.status) =>
                      \A e \in Range(df) :
                          <<e.date_obj[1], e.date_obj[2]>> # queried[i]
    /\ guideStamp >= 0 =>
          /\ ~guideSite.index.raises /\ ~SuccessStatus(guideSite.index.status)
             => guide_data = <<>>
          /\ \A r \in Range(guide_data) :
                SuccessStatus(guideSite.pages[r.url].status)

(* C9: an entry comes only from a cell whose trimmed text is non-empty and  *)
(* starts with digits; its day is the number the leading digits form and    *)
(* its label is the rest of the text; a cell without a leading digit is     *)
(* skipped and leaves the entries of the other cells as they are.           *)
C9_DayAndRestOfText ==
    calStamp >= 0 =>
        /\ \A e \in Range(df) :
              \E ym \in DOMAIN calSite :
                  /\ Readable(calSite[ym])
                  /\ \E t \in Range(Texts(calSite[ym])) :
                        /\ t # <<>>
                        /\ LeadDigits(t) >= 1
                        /\ e.date_obj = <<ym[1], ym[2], DayOf(t)>>
                        /\ e.gomi = RestOf(t)
        /\ \A ym \in DOMAIN calSite :
              Readable(calSite[ym]) =>
                  LET texts == Texts(calSite[ym])
                  IN  \A i \in DOMAIN texts :
                          /\ WellFormed(ym, texts[i])
                          /\ DateLE(fetchNow, <<ym[1], ym[2], DayOf(texts[i])>>)
                          /\ \A j \in 1..(i - 1) : ~InvalidDay(ym, texts[j])
                          => HasEntry(df, <<ym[1], ym[2], DayOf(texts[i])>>,
                                      RestOf(texts[i]))

\* the entries main() put on the page at its last run
ShownRows ==
    Range(shown.headline) \cup Range(shown.week) \cup shown.later

(* C10: whatever the age of the cached table, every calendar entry main()   *)
(* displays (today's or the next pickup, the next-7 list, the later-types   *)
(* list, the next pickup of a search hit) is of the day of the render or    *)
(* later.                                                                   *)
C10_NothingPastIsShown ==
    shown.rendered =>
        /\ \A e \in ShownRows : DateLE(shown.today, e.date_obj)
        /\ \A e \in Range(shown.pickups) : DateLE(shown.search_today, e.date_obj)

\* a render after midnight from a table cached the day before, which still
\* holds a row of that day, with all four displays filled
C10_Witness ==
    /\ shown.rendered
    /\ shown.today # fetchNow
    /\ Fresh(calStamp, CalendarTtl)
    /\ \E e \in Range(df) : ~DateLE(shown.today, e.date_obj)
    /\ shown.headline # <<>>
    /\ shown.week # <<>>
    /\ shown.later # {}
    /\ shown.pickups # <<>>

====
